---------------------------- MODULE Spec2Model ----------------------------
(***************************************************************************)
(* Model of fix_markdown2.py: a script that loads one text file, applies   *)
(* two bullet-normalising regular-expression substitutions, a tilde        *)
(* escaping substitution inside filter:"..." spans and four literal        *)
(* renames, then overwrites the file and prints a confirmation.            *)
(*                                                                         *)
(* A text is a sequence of one-character strings.  The character "B"       *)
(* stands for the bullet marker U+2022; no other use of "B" occurs in the  *)
(* texts of the model.  The class \s is modelled by space and newline.     *)
(***************************************************************************)
EXTENDS Integers, Sequences, FiniteSets, TLC

VARIABLES pc, file, content, prev, orig, out, trace, run

vars == <<pc, file, content, prev, orig, out, trace, run>>

---------------------------------------------------------------------------
(* Bounds of the model. *)

\* number of fragments concatenated into an input text of a transformation
MaxFrags == 4
\* number of fragments concatenated into the file of a whole run
MaxRunFrags == 3
\* number of times the script is invoked on the same file
MaxRuns == 2

---------------------------------------------------------------------------
(* Characters and literals of the source. *)

Bullet == "B"
Quote == "'"
DQuote == "\""
Tilde == "~"
Backslash == "\\"

IsSpace(c) == c \in {" ", "\n"}

\* r"'\\n- ...": the replacement template writes a backslash and the letter n
NewlineHyphen == <<Backslash, "n", "-", " ">>

FilterOpen == <<"f", "i", "l", "t", "e", "r", ":", DQuote>>

EscapedTilde == <<Backslash, Tilde>>

OldCreateSdt == <<DQuote, "c", "r", "e", "a", "t", "e", "_", "d", "e", "v", "i", "c", "e", "_", "s", "d", "t", DQuote>>
NewCreateSdt == <<DQuote, "c", "r", "e", "a", "t", "e", "_", "r", "e", "s", "o", "u", "r", "c", "e", "_", "s", "d", "t", DQuote>>
OldListDatasources == <<DQuote, "l", "i", "s", "t", "_", "d", "e", "v", "i", "c", "e", "_", "d", "a", "t", "a", "s", "o", "u", "r", "c", "e", "s", DQuote>>
NewListDatasources == <<DQuote, "l", "i", "s", "t", "_", "r", "e", "s", "o", "u", "r", "c", "e", "_", "d", "a", "t", "a", "s", "o", "u", "r", "c", "e", "s", DQuote>>
OldListProperties == <<DQuote, "l", "i", "s", "t", "_", "d", "e", "v", "i", "c", "e", "_", "p", "r", "o", "p", "e", "r", "t", "i", "e", "s", DQuote>>
NewListProperties == <<DQuote, "l", "i", "s", "t", "_", "r", "e", "s", "o", "u", "r", "c", "e", "_", "p", "r", "o", "p", "e", "r", "t", "i", "e", "s", DQuote>>
OldUpdateProperty == <<DQuote, "u", "p", "d", "a", "t", "e", "_", "d", "e", "v", "i", "c", "e", "_", "p", "r", "o", "p", "e", "r", "t", "y", DQuote>>
NewUpdateProperty == <<DQuote, "u", "p", "d", "a", "t", "e", "_", "r", "e", "s", "o", "u", "r", "c", "e", "_", "p", "r", "o", "p", "e", "r", "t", "y", DQuote>>

ConfirmationMessage == "Fixed remaining markdown formatting issues"

---------------------------------------------------------------------------
(* Helpers of the regular-expression engine. *)

Min(S) == CHOOSE x \in S : \A y \in S : x <= y
Max(S) == CHOOSE x \in S : \A y \in S : x >= y

\* the literal p occurs in s at index i
OccursAt(s, i, p) ==
    /\ i >= 1
    /\ i + Len(p) - 1 <= Len(s)
    /\ \A k \in 1..Len(p) : s[i + k - 1] = p[k]

\* index of the first c at or after index from, 0 when there is none
FirstAt(s, c, from) ==
    LET J == {j \in from..Len(s) : s[j] = c}
    IN  IF J = {} THEN 0 ELSE Min(J)

\* every character of s[a..b] is whitespace
AllSpace(s, a, b) == \A k \in a..b : IsSpace(s[k])

\* length of the run of whitespace that starts at index i (\s+, greedy)
SpaceRun(s, i) ==
    Min({k \in i..(Len(s) + 1) : k = Len(s) + 1 \/ ~IsSpace(s[k])}) - i

NoMatch == [end |-> 0, g1s |-> 0, g1e |-> 0]

---------------------------------------------------------------------------
(* Pass A:  re.sub(r"'B\s+([^']+?)\s+'", r"'\\n- \1'", content)            *)

\* The match of the pass A pattern that starts at index i, or NoMatch.
\* The match ends at the first quote after the bullet.  The first \s+ is
\* greedy and gives back under backtracking, the group is lazy: of the ways
\* to split the text between bullet and quote into whitespace, group,
\* whitespace, the engine finds the one with the longest first run and then
\* the shortest group.
PatternA(s, i) ==
    IF ~(i + 1 <= Len(s) /\ s[i] = Quote /\ s[i + 1] = Bullet)
    THEN NoMatch
    ELSE LET q == FirstAt(s, Quote, i + 2)
             n == q - i - 2
             Cand == {c \in (1..n) \X (1..n) :
                        /\ c[1] + c[2] < n
                        /\ AllSpace(s, i + 2, i + 1 + c[1])
                        /\ AllSpace(s, i + 2 + c[1] + c[2], q - 1)}
         IN  IF Cand = {} THEN NoMatch
             ELSE LET a == Max({c[1] : c \in Cand})
                      l == Min({c[2] : c \in {d \in Cand : d[1] = a}})
                  IN  [end |-> q, g1s |-> i + 2 + a, g1e |-> i + 1 + a + l]

\* a replacement that keeps the whitespace before the closing quote
ReplaceAUntrimmed(s, m) ==
    <<Quote>> \o NewlineHyphen \o SubSeq(s, m.g1s, m.end - 1) \o <<Quote>>

\* r"'\\n- \1'"
ReplaceA(s, m) ==
    <<Quote>> \o NewlineHyphen \o SubSeq(s, m.g1s, m.g1e) \o <<Quote>>

\* index of the leftmost pass A match at or after index i, 0 when there is none
NextA(s, i) ==
    LET J == {j \in i..Len(s) : PatternA(s, j).end # 0}
    IN  IF J = {} THEN 0 ELSE Min(J)

RECURSIVE SubA(_, _)
\* re.sub: leftmost matches, the search resuming after each match; the text
\* between matches is copied
SubA(s, i) ==
    LET j == NextA(s, i)
    IN  IF j = 0 THEN SubSeq(s, i, Len(s))
        ELSE SubSeq(s, i, j - 1) \o ReplaceA(s, PatternA(s, j))
                 \o SubA(s, PatternA(s, j).end + 1)

RECURSIVE ScanA(_, _)
\* the matches re.sub finds from index i on, as [start, end] records
ScanA(s, i) ==
    LET j == NextA(s, i)
    IN  IF j = 0 THEN {}
        ELSE {[start |-> j, end |-> PatternA(s, j).end]}
                 \cup ScanA(s, PatternA(s, j).end + 1)

PassA(s) == SubA(s, 1)

---------------------------------------------------------------------------
(* Pass B:  re.sub(r"(\s+)'B\s+", r"\1'\\n- ", content)                    *)

\* The match of the pass B pattern that starts at index i, or NoMatch.
PatternB(s, i) ==
    IF ~(i <= Len(s) /\ IsSpace(s[i])) THEN NoMatch
    ELSE LET a == SpaceRun(s, i)
             j == i + a
         IN  IF /\ j + 2 <= Len(s)
                /\ s[j] = Quote
                /\ s[j + 1] = Bullet
                /\ IsSpace(s[j + 2])
             THEN [end |-> j + 1 + SpaceRun(s, j + 2), g1s |-> i, g1e |-> j - 1]
             ELSE NoMatch

\* a replacement without the group: r"'\\n- "
ReplaceBNoGroup(s, m) ==
    <<Quote>> \o NewlineHyphen

\* r"\1'\\n- "
ReplaceB(s, m) ==
    SubSeq(s, m.g1s, m.g1e) \o <<Quote>> \o NewlineHyphen

NextB(s, i) ==
    LET J == {j \in i..Len(s) : PatternB(s, j).end # 0}
    IN  IF J = {} THEN 0 ELSE Min(J)

RECURSIVE SubB(_, _)
SubB(s, i) ==
    LET j == NextB(s, i)
    IN  IF j = 0 THEN SubSeq(s, i, Len(s))
        ELSE SubSeq(s, i, j - 1) \o ReplaceB(s, PatternB(s, j))
                 \o SubB(s, PatternB(s, j).end + 1)

RECURSIVE ScanB(_, _)
\* the matches re.sub finds from index i on: start, the quote, end
ScanB(s, i) ==
    LET j == NextB(s, i)
    IN  IF j = 0 THEN {}
        ELSE {[start |-> j, quote |-> PatternB(s, j).g1e + 1,
               end |-> PatternB(s, j).end]}
                 \cup ScanB(s, PatternB(s, j).end + 1)

PassB(s) == SubB(s, 1)

---------------------------------------------------------------------------
(* Tilde escaping:  re.sub(r'filter:"[^"]*~[^"]*"', escape_tildes, content) *)

\* The match of the filter pattern that starts at index i, or NoMatch.
PatternFilter(s, i) ==
    IF ~OccursAt(s, i, FilterOpen) THEN NoMatch
    ELSE LET q == FirstAt(s, DQuote, i + Len(FilterOpen))
         IN  IF q # 0 /\ \E k \in (i + Len(FilterOpen))..(q - 1) : s[k] = Tilde
             THEN [end |-> q, g1s |-> 0, g1e |-> 0]
             ELSE NoMatch

\* old in full
Contains(full, old) == \E i \in 1..Len(full) : OccursAt(full, i, old)

\* str.replace(old, new, 1): only the first occurrence
StrReplaceOnce(s, old, new, i) ==
    LET J == {j \in i..Len(s) : OccursAt(s, j, old)}
    IN  IF J = {} THEN SubSeq(s, i, Len(s))
        ELSE SubSeq(s, i, Min(J) - 1) \o new
                 \o SubSeq(s, Min(J) + Len(old), Len(s))

RECURSIVE StrReplace(_, _, _, _)
\* str.replace(old, new) from index i on: leftmost occurrences, not overlapping
StrReplace(s, old, new, i) ==
    LET J == {j \in i..Len(s) : OccursAt(s, j, old)}
    IN  IF J = {} THEN SubSeq(s, i, Len(s))
        ELSE SubSeq(s, i, Min(J) - 1) \o new
                 \o StrReplace(s, old, new, Min(J) + Len(old))

\* escape_tildes without the "already escaped" test
escape_tildes_unguarded(full) ==
    StrReplace(full, <<Tilde>>, EscapedTilde, 1)

\* escape_tildes that stops after the first tilde: replace('~', '\\~', 1)
escape_tildes_first(full) ==
    IF ~Contains(full, EscapedTilde) /\ Contains(full, <<Tilde>>)
    THEN LET j == FirstAt(full, Tilde, 1)
         IN  SubSeq(full, 1, j - 1) \o EscapedTilde \o SubSeq(full, j + 1, Len(full))
    ELSE full

\* escape_tildes that tests for a tilde where it should test for an escaped one
escape_tildes_wrongtest(full) ==
    IF ~Contains(full, <<Backslash>>)
    THEN StrReplace(full, <<Tilde>>, EscapedTilde, 1)
    ELSE StrReplace(full, EscapedTilde, <<Backslash>> \o EscapedTilde, 1)

escape_tildes(full) ==
    IF ~Contains(full, EscapedTilde)
    THEN StrReplace(full, <<Tilde>>, EscapedTilde, 1)
    ELSE full

NextFilter(s, i) ==
    LET J == {j \in i..Len(s) : PatternFilter(s, j).end # 0}
    IN  IF J = {} THEN 0 ELSE Min(J)

RECURSIVE SubFilter(_, _)
\* re.sub with a function: each match is replaced by escape_tildes(match)
SubFilter(s, i) ==
    LET j == NextFilter(s, i)
    IN  IF j = 0 THEN SubSeq(s, i, Len(s))
        ELSE SubSeq(s, i, j - 1)
                 \o escape_tildes(SubSeq(s, j, PatternFilter(s, j).end))
                 \o SubFilter(s, PatternFilter(s, j).end + 1)

RECURSIVE ScanFilter(_, _)
\* the matches re.sub finds from index i on, as [start, end] records
ScanFilter(s, i) ==
    LET j == NextFilter(s, i)
    IN  IF j = 0 THEN {}
        ELSE {[start |-> j, end |-> PatternFilter(s, j).end]}
                 \cup ScanFilter(s, PatternFilter(s, j).end + 1)

TildeStep(s) == SubFilter(s, 1)

---------------------------------------------------------------------------
(* Rename: four str.replace calls, one after the other. *)

\* a rename that leaves out the last of the four replacements
RenameStepThree(s) ==
    LET s1 == StrReplace(s, OldCreateSdt, NewCreateSdt, 1)
        s2 == StrReplace(s1, OldListDatasources, NewListDatasources, 1)
    IN  StrReplace(s2, OldListProperties, NewListProperties, 1)

RenameStep(s) ==
    LET s1 == StrReplace(s, OldCreateSdt, NewCreateSdt, 1)
        s2 == StrReplace(s1, OldListDatasources, NewListDatasources, 1)
        s3 == StrReplace(s2, OldListProperties, NewListProperties, 1)
    IN  StrReplace(s3, OldUpdateProperty, NewUpdateProperty, 1)

---------------------------------------------------------------------------
(* Input texts: concatenations of at most n fragments of a set F. *)

RECURSIVE TextsOf(_, _)
TextsOf(F, n) ==
    IF n = 0 THEN {<<>>}
    ELSE LET D == TextsOf(F, n - 1)
         IN  D \cup {d \o f : d \in D, f \in F}

BulletItem == <<Quote, Bullet, " ", "x", " ">>

BulletFrags ==
    {<<Quote>>, <<Bullet>>, <<" ">>, <<"\n">>, <<"x">>, BulletItem}

TildeFrags ==
    {FilterOpen, <<Tilde>>, <<Backslash>>, EscapedTilde, <<DQuote>>, <<"x">>}

RenameFrags ==
    {<<DQuote>>, <<"x">>, OldCreateSdt, Tail(OldCreateSdt), OldListDatasources,
     OldListProperties, OldUpdateProperty}

RunFrags ==
    {BulletItem, <<Quote>>, <<" ">>, FilterOpen, <<Tilde>>, EscapedTilde,
     <<DQuote>>, OldCreateSdt, Tail(OldCreateSdt)}

---------------------------------------------------------------------------
(* The run of main(). *)

Steps == <<"Load", "PassA", "PassB", "Tilde", "Rename", "Open", "Write", "Report">>

\* the state in which main() is entered on a file holding doc
InitOn(docs) ==
    /\ file \in docs
    /\ orig = file
    /\ pc = "Start"
    /\ content = <<>>
    /\ prev = <<>>
    /\ out = <<>>
    /\ trace = <<>>
    /\ run = 1

\* the state after f.read() returned text doc
LoadedOn(docs) ==
    /\ file \in docs
    /\ orig = file
    /\ pc = "Loaded"
    /\ content = file
    /\ prev = file
    /\ out = <<>>
    /\ trace = <<"Load">>
    /\ run = 1

Init == InitOn(TextsOf(RunFrags, MaxRunFrags))

\* with open(path, 'r') as f: content = f.read()
Load ==
    /\ pc = "Start"
    /\ content' = file
    /\ prev' = file
    /\ pc' = "Loaded"
    /\ trace' = Append(trace, "Load")
    /\ UNCHANGED <<file, orig, out, run>>

\* open or read raises: the exception leaves main()
LoadFail ==
    /\ pc = "Start"
    /\ pc' = "LoadFailed"
    /\ UNCHANGED <<file, content, prev, orig, out, trace, run>>

Transform(from, to, step, result) ==
    /\ pc = from
    /\ prev' = content
    /\ content' = result
    /\ pc' = to
    /\ trace' = Append(trace, step)
    /\ UNCHANGED <<file, orig, out, run>>

BulletPassA == Transform("Loaded", "BulletFixedA", "PassA", PassA(content))

BulletPassB == Transform("BulletFixedA", "BulletFixedB", "PassB", PassB(content))

TildeEscape == Transform("BulletFixedB", "TildeEscaped", "Tilde", TildeStep(content))

Rename == Transform("TildeEscaped", "Renamed", "Rename", RenameStep(content))

\* open(path, 'w'): the file is truncated when the open succeeds
OpenForWrite ==
    /\ pc = "Renamed"
    /\ file' = <<>>
    /\ pc' = "Opened"
    /\ trace' = Append(trace, "Open")
    /\ UNCHANGED <<content, prev, orig, out, run>>

\* open(path, 'w') raises: nothing was touched
OpenFail ==
    /\ pc = "Renamed"
    /\ pc' = "StoreFailed"
    /\ UNCHANGED <<file, content, prev, orig, out, trace, run>>

\* a write that ends the text with a newline of its own, as print would
WriteWithNewline ==
    /\ pc = "Opened"
    /\ file' = Append(content, "\n")
    /\ pc' = "Stored"
    /\ trace' = Append(trace, "Write")
    /\ UNCHANGED <<content, prev, orig, out, run>>

\* f.write(content) and the close at the end of the with block
Write ==
    /\ pc = "Opened"
    /\ file' = content
    /\ pc' = "Stored"
    /\ trace' = Append(trace, "Write")
    /\ UNCHANGED <<content, prev, orig, out, run>>

\* f.write or the flush at close raises: some prefix of content reached the file
WriteFail ==
    /\ pc = "Opened"
    /\ \E n \in 0..Len(content) : file' = SubSeq(content, 1, n)
    /\ pc' = "StoreFailed"
    /\ UNCHANGED <<content, prev, orig, out, trace, run>>

\* a Report that also runs after a failed store
ReportAlways ==
    /\ pc \in {"Stored", "StoreFailed"}
    /\ out' = Append(out, ConfirmationMessage)
    /\ pc' = "Done"
    /\ trace' = Append(trace, "Report")
    /\ UNCHANGED <<file, content, prev, orig, run>>

\* print("Fixed remaining markdown formatting issues")
Report ==
    /\ pc = "Stored"
    /\ out' = Append(out, ConfirmationMessage)
    /\ pc' = "Done"
    /\ trace' = Append(trace, "Report")
    /\ UNCHANGED <<file, content, prev, orig, run>>

\* the script is invoked again on the file the finished run left
Restart ==
    /\ pc = "Done"
    /\ run < MaxRuns
    /\ run' = run + 1
    /\ orig' = file
    /\ pc' = "Start"
    /\ content' = <<>>
    /\ prev' = <<>>
    /\ out' = <<>>
    /\ trace' = <<>>
    /\ UNCHANGED file

Next ==
    \/ Load
    \/ LoadFail
    \/ BulletPassA
    \/ BulletPassB
    \/ TildeEscape
    \/ Rename
    \/ OpenForWrite
    \/ OpenFail
    \/ Write
    \/ WriteFail
    \/ Report
    \/ Restart

Spec == Init /\ [][Next]_vars

(* The transformations alone, applied to texts drawn from bounded sets. *)

NextTransform ==
    \/ BulletPassA
    \/ BulletPassB
    \/ TildeEscape
    \/ Rename

InitBullet == LoadedOn(TextsOf(BulletFrags, MaxFrags))
SpecBullet == InitBullet /\ [][NextTransform]_vars

InitTilde == LoadedOn(TextsOf(TildeFrags, MaxFrags))
SpecTilde == InitTilde /\ [][NextTransform]_vars

InitRename == LoadedOn(TextsOf(RenameFrags, MaxFrags))
SpecRename == InitRename /\ [][NextTransform]_vars

---------------------------------------------------------------------------
(* Tilde escaping: C1, C7. *)

\* number of tildes in s[1..p]
TildesUpTo(s, p) == Cardinality({k \in 1..p : k <= Len(s) /\ s[k] = Tilde})

\* a span of the claimed form starts at index i: filter:" , then characters
\* other than the double quote with a tilde among them, then a double quote
IsFilterSpanAt(s, i) ==
    /\ OccursAt(s, i, FilterOpen)
    /\ \E q \in (i + Len(FilterOpen))..Len(s) :
          /\ s[q] = DQuote
          /\ \A k \in (i + Len(FilterOpen))..(q - 1) : s[k] # DQuote
          /\ \E k \in (i + Len(FilterOpen))..(q - 1) : s[k] = Tilde

SpanEnd(s, i) ==
    Min({q \in (i + Len(FilterOpen))..Len(s) : s[q] = DQuote})

HasEscapedPair(sp) == \E k \in 1..(Len(sp) - 1) : sp[k] = Backslash /\ sp[k + 1] = Tilde

\* a tilde of sp that no backslash precedes
HasBareTilde(sp) == \E k \in 1..Len(sp) : sp[k] = Tilde /\ (k = 1 \/ sp[k - 1] # Backslash)

\* r is sp with a backslash put before every tilde and nothing else changed
EveryTildeEscaped(sp, r) ==
    /\ Len(r) = Len(sp) + TildesUpTo(sp, Len(sp))
    /\ \A p \in 1..Len(sp) :
          LET at == p + TildesUpTo(sp, p - 1)
          IN  IF sp[p] = Tilde
              THEN r[at] = Backslash /\ r[at + 1] = Tilde
              ELSE r[at] = sp[p]

\* what the claim says the step makes of span sp
SpanAsClaimed(sp, r) ==
    IF HasEscapedPair(sp) THEN r = sp ELSE EveryTildeEscaped(sp, r)

\* C1: applying the tilde-escaping step to its own output changes nothing,
\* and every span the second application matches holds an escaped tilde.
C1_TildeIdempotent ==
    pc = "TildeEscaped" =>
        /\ TildeStep(content) = content
        /\ \A m \in ScanFilter(content, 1) :
              HasEscapedPair(SubSeq(content, m.start, m.end))

\* the step rewrote a span, and a second application meets the rewritten span
C1_Witness ==
    /\ pc = "TildeEscaped"
    /\ content # prev
    /\ NextFilter(content, 1) # 0

\* C7: the leftmost matched span is rewritten as claimed (every tilde escaped
\* when the span holds no backslash-tilde pair, the span kept as it is when it
\* holds one), the text before it is unchanged, and the text after it is what
\* the step makes of that text on its own; a text with no span is unchanged.
C7_SpanRule ==
    pc = "TildeEscaped" =>
        LET S == {i \in 1..Len(prev) : IsFilterSpanAt(prev, i)}
        IN  IF S = {} THEN content = prev
            ELSE LET i == Min(S)
                     q == SpanEnd(prev, i)
                     rest == TildeStep(SubSeq(prev, q + 1, Len(prev)))
                     e == Len(content) - Len(rest)
                 IN  /\ e >= i
                     /\ SubSeq(content, 1, i - 1) = SubSeq(prev, 1, i - 1)
                     /\ SpanAsClaimed(SubSeq(prev, i, q), SubSeq(content, i, e))
                     /\ SubSeq(content, e + 1, Len(content)) = rest

\* a span mixing an escaped and a bare tilde went through the step
C7_Witness ==
    /\ pc = "TildeEscaped"
    /\ \E i \in 1..Len(prev) :
          /\ IsFilterSpanAt(prev, i)
          /\ HasEscapedPair(SubSeq(prev, i, SpanEnd(prev, i)))
          /\ HasBareTilde(SubSeq(prev, i, SpanEnd(prev, i)))
    /\ content = prev

---------------------------------------------------------------------------
(* The whole run: C4, C5, C6, C9. *)

OldNames == {OldCreateSdt, OldListDatasources, OldListProperties, OldUpdateProperty}

\* d holds no bullet marker, no filter span with a tilde that no backslash
\* precedes, and none of the four quoted legacy identifiers
Clean(d) ==
    /\ \A k \in 1..Len(d) : d[k] # Bullet
    /\ \A i \in 1..Len(d) :
          IsFilterSpanAt(d, i) => ~HasBareTilde(SubSeq(d, i + Len(FilterOpen), SpanEnd(d, i)))
    /\ \A o \in OldNames : ~Contains(d, o)

\* C4: a run that stored a clean document stored the document it loaded.
C4_NoOpOnClean ==
    (pc \in {"Stored", "Done"} /\ Clean(orig)) => file = orig

\* a clean document with an escaped filter span and quotes was stored
C4_Witness ==
    /\ pc = "Done"
    /\ Clean(orig)
    /\ Contains(orig, FilterOpen \o EscapedTilde \o <<DQuote>>)
    /\ file = orig

\* C5: until Store has completed the file holds what it held when the run
\* began: after a failed Load, after a failed open for writing, after a
\* failed write, and at every point in between.
C5_NoPartialWrite ==
    pc \notin {"Stored", "Done"} => file = orig

\* C6: the steps taken are an initial part of Load, pass A, pass B, tilde
\* escaping, rename, open, write, report; the file differs from the loaded
\* one only once it was opened for writing, which is after the four
\* transformations; the message is out exactly once when the run is done and
\* not at all before, nor after a failed Load or Store.
C6_Linear ==
    /\ \E n \in 0..Len(Steps) : trace = SubSeq(Steps, 1, n)
    /\ file # orig => Len(trace) >= 6
    /\ pc = "Done" => out = <<ConfirmationMessage>> /\ Len(trace) = 8
    /\ pc # "Done" => out = <<>>
    /\ pc \in {"LoadFailed", "StoreFailed"} => Len(trace) \in {0, 5, 6}

\* a run that rewrote the file and reported
C6_Witness ==
    /\ pc = "Done"
    /\ out = <<ConfirmationMessage>>
    /\ file # orig

\* d has no pass A match, no pass B match and no quoted legacy identifier
Settled(d) ==
    /\ NextA(d, 1) = 0
    /\ NextB(d, 1) = 0
    /\ \A o \in OldNames : ~Contains(d, o)

\* C9 as claimed: a later run stores the document the run before it stored.
C9_Idempotent ==
    (run >= 2 /\ pc \in {"Stored", "Done"}) => file = orig

\* C9 as amended: a later run stores the document the run before it stored,
\* when that document holds no match of pass A or pass B and no quoted legacy
\* identifier.
C9_IdempotentWhenSettled ==
    (run >= 2 /\ pc \in {"Stored", "Done"} /\ Settled(orig)) => file = orig

\* the second run finished on a document the first run had rewritten in all
\* three ways
C9_Witness ==
    /\ run = 2
    /\ pc = "Done"
    /\ Settled(orig)
    /\ Contains(orig, EscapedTilde)
    /\ \/ Contains(orig, NewlineHyphen)
       \/ Contains(orig, NewCreateSdt)

---------------------------------------------------------------------------
(* Rename: C2, C10. *)

Old == <<OldCreateSdt, OldListDatasources, OldListProperties, OldUpdateProperty>>
New == <<NewCreateSdt, NewListDatasources, NewListProperties, NewUpdateProperty>>

\* the verbatim occurrences of the quoted legacy identifiers in s, as
\* <<index, identifier>>
Occurrences(s) ==
    {r \in (1..Len(s)) \X (1..Len(Old)) : OccursAt(s, r[1], Old[r[2]])}

RECURSIVE TakenAt(_, _, _)
\* the occurrence of identifier k at index i is one of those met when the
\* occurrences of k are taken left to right without overlap: the occurrence
\* that ends on its opening quote, if any, is not
TakenAt(s, k, i) ==
    /\ OccursAt(s, i, Old[k])
    /\ ~TakenAt(s, k, i - Len(Old[k]) + 1)

TakenOccurrences(s) == {r \in Occurrences(s) : TakenAt(s, r[2], r[1])}

RECURSIVE Growth(_)
\* by how much replacing the occurrences of R lengthens the text
Growth(R) ==
    IF R = {} THEN 0
    ELSE LET r == CHOOSE x \in R : TRUE
         IN  Len(New[r[2]]) - Len(Old[r[2]]) + Growth(R \ {r})

\* where index p of the input lies in the output, the occurrences of R that
\* start before it having been replaced
Moved(R, p) == p + Growth({r \in R : r[1] < p})

Covered(R, p) == \E r \in R : r[1] <= p /\ p <= r[1] + Len(Old[r[2]]) - 1

\* o is s with exactly the occurrences of R replaced by their current
\* equivalents and every character outside them unchanged
RenamedExactly(s, o, R) ==
    /\ Len(o) = Len(s) + Growth(R)
    /\ \A r \in R : OccursAt(o, Moved(R, r[1]), New[r[2]])
    /\ \A p \in 1..Len(s) :
          ~Covered(R, p) => Moved(R, p) <= Len(o) /\ o[Moved(R, p)] = s[p]

\* C2 as claimed: every verbatim occurrence of a quoted legacy identifier is
\* replaced by its current equivalent and every other character is unchanged.
C2_EveryOccurrence ==
    pc = "Renamed" => RenamedExactly(prev, content, Occurrences(prev))

\* C2 as amended: the occurrences replaced are, for each identifier, those
\* taken left to right without overlap (an occurrence whose opening quote is
\* the closing quote of a replaced occurrence of the same identifier is not
\* replaced); every character outside the replaced occurrences is unchanged.
C2_TakenOccurrences ==
    pc = "Renamed" => RenamedExactly(prev, content, TakenOccurrences(prev))

\* two different identifiers were replaced and one occurrence was passed over
C2_Witness ==
    /\ pc = "Renamed"
    /\ \E r1, r2 \in TakenOccurrences(prev) : r1[2] # r2[2]
    /\ TakenOccurrences(prev) # Occurrences(prev)

\* C10 as claimed: no quoted legacy identifier is left after the rename.
C10_NoLegacyLeft ==
    pc = "Renamed" => \A k \in 1..Len(Old) : ~Contains(content, Old[k])

\* no two occurrences of one legacy identifier in s share a quote
NoSharedQuote(s) ==
    \A r \in Occurrences(s) :
        ~OccursAt(s, r[1] + Len(Old[r[2]]) - 1, Old[r[2]])

\* C10 as amended: a quoted legacy identifier left after the rename begins on
\* the closing quote of the current form of the same identifier, and none is
\* left when no two occurrences of one identifier shared a quote in the input.
C10_LegacyOnlyAfterRenamed ==
    pc = "Renamed" =>
        /\ \A k \in 1..Len(Old) : \A i \in 1..Len(content) :
              OccursAt(content, i, Old[k]) =>
                  OccursAt(content, i - Len(New[k]) + 1, New[k])
        /\ NoSharedQuote(prev) =>
              \A k \in 1..Len(Old) : ~Contains(content, Old[k])

\* the rename replaced an occurrence and left the one that shared its quote
C10_Witness ==
    /\ pc = "Renamed"
    /\ content # prev
    /\ \E k \in 1..Len(Old) : Contains(content, Old[k])

---------------------------------------------------------------------------
(* Bullet normalisation: C3, C8. *)

\* an inside-quote bullet of the claimed form lies at s[i..j]: quote, bullet,
\* whitespace, a text that holds no quote and neither starts nor ends with
\* whitespace, whitespace, quote
IsInsideBullet(s, i, j) ==
    /\ 1 <= i
    /\ i + 5 <= j
    /\ j <= Len(s)
    /\ s[i] = Quote
    /\ s[i + 1] = Bullet
    /\ s[j] = Quote
    /\ \A k \in (i + 2)..(j - 1) : s[k] # Quote
    /\ IsSpace(s[i + 2])
    /\ IsSpace(s[j - 1])
    /\ \E k \in (i + 3)..(j - 2) : ~IsSpace(s[k])

\* the text T of the inside-quote bullet at s[i..j]
BulletText(s, i, j) ==
    LET N == {k \in (i + 3)..(j - 2) : ~IsSpace(s[k])}
    IN  SubSeq(s, Min(N), Max(N))

InsideBullets(s) ==
    {r \in (1..Len(s)) \X (1..Len(s)) : IsInsideBullet(s, r[1], r[2])}

\* o is s with the inside-quote bullet at s[i..j] rewritten as claimed, the
\* texts before and after it being what pass A makes of them
RewrittenAt(s, o, i, j) ==
    o = PassA(SubSeq(s, 1, i - 1))
          \o <<Quote, Backslash, "n", "-", " ">> \o BulletText(s, i, j) \o <<Quote>>
          \o PassA(SubSeq(s, j + 1, Len(s)))

\* the quote at index i is the closing quote of a pass A match
ClosesMatchA(s, i) == \E m \in ScanA(s, 1) : m.end = i

\* C8 as claimed: every inside-quote bullet of the document is rewritten.
C8_EveryInsideBullet ==
    pc = "BulletFixedA" =>
        \A r \in InsideBullets(prev) : RewrittenAt(prev, content, r[1], r[2])

\* C8 as amended: every inside-quote bullet is rewritten, except one whose
\* opening quote is the closing quote of a pass A match before it.
C8_InsideBulletNotShared ==
    pc = "BulletFixedA" =>
        \A r \in InsideBullets(prev) :
            ~ClosesMatchA(prev, r[1]) => RewrittenAt(prev, content, r[1], r[2])

\* pass A rewrote an inside-quote bullet with whitespace to trim on both
\* sides and passed over another that shared its closing quote
C8_Witness ==
    /\ pc = "BulletFixedA"
    /\ \E r \in InsideBullets(prev) : ~ClosesMatchA(prev, r[1])
    /\ \E r \in InsideBullets(prev) : ClosesMatchA(prev, r[1])

\* number of bullet markers in s[1..p]
BulletsUpTo(s, p) == Cardinality({k \in 1..p : k <= Len(s) /\ s[k] = Bullet})

BulletCount(s) == BulletsUpTo(s, Len(s))

\* number of places where the literal p occurs in s
CountOf(s, p) == Cardinality({i \in 1..Len(s) : OccursAt(s, i, p)})

\* the n-th smallest member of the set S of numbers
NthOf(S, n) == CHOOSE x \in S : Cardinality({y \in S : y <= x}) = n

\* The bullets of s that pass A converts, each named by its rank among the
\* bullets of s.
ConvertedByA(s) == {BulletsUpTo(s, m.start + 1) : m \in ScanA(s, 1)}

\* The bullets of s that pass B converts after pass A.  Pass A removes the
\* bullets it converts and keeps the others in order, so the n-th bullet of
\* PassA(s) is the n-th bullet of s that pass A did not convert.
ConvertedByB(s) ==
    LET left == (1..BulletCount(s)) \ ConvertedByA(s)
    IN  {NthOf(left, BulletsUpTo(PassA(s), m.quote + 1)) : m \in ScanB(PassA(s), 1)}

Converted(s) == ConvertedByA(s) \cup ConvertedByB(s)

\* a continuation-line bullet of the claimed form has its quote at index k:
\* whitespace, quote, bullet, whitespace, text
IsContinuationBullet(s, k) ==
    /\ 2 <= k
    /\ k + 3 <= Len(s)
    /\ IsSpace(s[k - 1])
    /\ s[k] = Quote
    /\ s[k + 1] = Bullet
    /\ IsSpace(s[k + 2])
    /\ k + 2 + SpaceRun(s, k + 2) <= Len(s)

ContinuationBullets(s) == {k \in 1..Len(s) : IsContinuationBullet(s, k)}

\* the whitespace before the quote at index k is the whitespace that follows
\* another bullet marker
LeadFollowsBullet(s, k) ==
    LET N == {t \in 1..(k - 1) : ~IsSpace(s[t])}
    IN  N # {} /\ s[Max(N)] = Bullet

\* Every pass B match of a is in o the whitespace it began with, the quote,
\* and the escaped newline-hyphen-space.
LeadKept(a, o) ==
    \A m \in ScanB(a, 1) :
        LET before == {x \in ScanB(a, 1) : x.start < m.start}
            RECURSIVE Shift(_)
            Shift(X) ==
                IF X = {} THEN 0
                ELSE LET x == CHOOSE y \in X : TRUE
                     IN  Len(NewlineHyphen) - (x.end - x.quote) + Shift(X \ {x})
            off == Shift(before)
        IN  /\ m.quote + off + Len(NewlineHyphen) <= Len(o)
            /\ SubSeq(o, m.start + off, m.quote + off + Len(NewlineHyphen))
                 = SubSeq(a, m.start, m.quote) \o NewlineHyphen

\* Every bullet that disappeared was converted once: the bullets gone are the
\* converted ones, and no more newline-hyphen sequences appeared than bullets
\* went.
ConvertedOnce(s, o) ==
    /\ BulletCount(s) - BulletCount(o) = Cardinality(Converted(s))
    /\ CountOf(o, NewlineHyphen) - CountOf(s, NewlineHyphen)
          <= BulletCount(s) - BulletCount(o)

\* C3 as claimed: in an input with an inside-quote bullet and a
\* continuation-line bullet, every bullet of either kind is converted, pass A
\* giving the escaped newline-hyphen-space form and pass B the same form after
\* the whitespace and quote it found, and no bullet is converted twice.
C3_BothConverted ==
    (pc = "BulletFixedB" /\ InsideBullets(orig) # {} /\ ContinuationBullets(orig) # {}) =>
        /\ \A r \in InsideBullets(orig) :
              /\ BulletsUpTo(orig, r[1] + 1) \in ConvertedByA(orig)
              /\ RewrittenAt(orig, prev, r[1], r[2])
        /\ \A k \in ContinuationBullets(orig) :
              BulletsUpTo(orig, k + 1) \in Converted(orig)
        /\ LeadKept(prev, content)
        /\ ConvertedOnce(orig, content)

\* C3 as amended: the same, except that an inside-quote bullet whose opening
\* quote is the closing quote of a pass A match is not converted by pass A,
\* and a continuation-line bullet need not be converted when its quote is the
\* closing quote of a pass A match or when the whitespace before its quote is
\* the whitespace that follows another bullet marker.
C3_BothConvertedUnlessShared ==
    (pc = "BulletFixedB" /\ InsideBullets(orig) # {} /\ ContinuationBullets(orig) # {}) =>
        /\ \A r \in InsideBullets(orig) :
              ~ClosesMatchA(orig, r[1]) =>
                  /\ BulletsUpTo(orig, r[1] + 1) \in ConvertedByA(orig)
                  /\ RewrittenAt(orig, prev, r[1], r[2])
        /\ \A k \in ContinuationBullets(orig) :
              \/ BulletsUpTo(orig, k + 1) \in Converted(orig)
              \/ ClosesMatchA(orig, k)
              \/ LeadFollowsBullet(orig, k)
        /\ LeadKept(prev, content)
        /\ ConvertedOnce(orig, content)

\* an inside-quote bullet was converted by pass A and a separate
\* continuation-line bullet by pass B
C3_Witness ==
    /\ pc = "BulletFixedB"
    /\ \E r \in InsideBullets(orig) :
          BulletsUpTo(orig, r[1] + 1) \in ConvertedByA(orig)
    /\ \E k \in ContinuationBullets(orig) :
          BulletsUpTo(orig, k + 1) \in ConvertedByB(orig)
    /\ BulletCount(content) = 0

=============================================================================
